---- MODULE Spec2Model ----
(***************************************************************************)
(* A model of optimize_layout_fixed_pe.py: the search for a PE layout of   *)
(* the CESM components over a fixed budget of TOTAL_PES tasks.             *)
(*                                                                         *)
(* The pure functions of the script (legal_ntasks, assign_rootpes,         *)
(* parse_timing) are operators, computed the way the script computes them; *)
(* objective() and main() are the state machine of Spec.  The Simulator    *)
(* (CIME's Case) and the Trial Proposer (optuna) are the environment: what *)
(* they answer is a nondeterministic choice drawn from bounded sets.       *)
(*                                                                         *)
(* Floats: a weight is a whole number of hundredths (0.01 .. 1.0 is        *)
(* 1 .. 100) and raw = weight / weight_sum * TOTAL_PES is computed         *)
(* exactly; a number read from a timing file is a whole number of tenths.  *)
(***************************************************************************)
EXTENDS Integers, Sequences, FiniteSets, TLC

VARIABLES
    pc,                     \* where main() / objective() stands
    num_trials,             \* args.num_trials
    metric,                 \* args.metric
    sim_comp_types,         \* the case's COMP_<comp> values
    sim_max_mpi,            \* the case's MAX_MPITASKS_PER_NODE
    timing,                 \* the case's timing directory
    trials,                 \* study.trials: the finished trials, in order
    reported,               \* what main() printed as the best trial
    stub_comps,             \* objective(): locals of the running trial
    max_mpitasks_per_node,
    num_groups,
    overlap_groups,
    raw_weights,
    task_counts,
    rootpes,
    config,
    sim_outcome,            \* how the Simulator answered configure_case()
    results,
    value,                  \* legal_ntasks(): its argument
    legal,                  \* legal_ntasks(): what it returned
    pushed,                 \* history: (suggested values, layout) of every push,
                            \* the layout being the config and the set of groups
    record_pushes           \* whether the history is kept

vars == <<pc, num_trials, metric, sim_comp_types, sim_max_mpi, timing, trials,
          reported, stub_comps, max_mpitasks_per_node, num_groups,
          overlap_groups, raw_weights, task_counts, rootpes, config,
          sim_outcome, results, value, legal, pushed, record_pushes>>

(***************************************************************************)
(* Program constants                                                       *)
(***************************************************************************)
TOTAL_PES == 1024

COMPONENTS == <<"ATM", "LND", "ICE", "CPL", "ROF", "GLC", "WAV", "OCN">>

TASK_MAX_LIMITS == [ATM |-> 5400]

TASK_MIN_LIMITS == [ATM |-> 64, OCN |-> 512]

\* None, and a number where None may stand: <<>> and <<x>>
None == <<>>

Some(x) == <<x>>

\* No exception was raised
NoException == "NoException"

(***************************************************************************)
(* Python helpers                                                          *)
(***************************************************************************)
\* dict.get(key, default)
DictGet(d, key, default) == IF key \in DOMAIN d THEN d[key] ELSE default

Abs(x) == IF x < 0 THEN -x ELSE x

PyMax(a, b) == IF b > a THEN b ELSE a

PyMin(a, b) == IF b < a THEN b ELSE a

\* range(lo, hi, step) for step > 0, as a list
PyRange(lo, hi, step) ==
    [k \in 1..(IF hi > lo THEN (hi - lo + step - 1) \div step ELSE 0)
        |-> lo + (k - 1) * step]

SeqToSet(s) == {s[i] : i \in DOMAIN s}

\* sorted(S) of a set of positive integers none of which exceeds hi
SortedSet(S, hi) == SelectSeq([i \in 1..hi |-> i], LAMBDA i : i \in S)

\* The index min(s, key = |x - value|) returns among s[lo..hi]: the first
\* one whose key is minimal.
RECURSIVE MinIndex(_, _, _, _)
MinIndex(s, v, lo, hi) ==
    IF lo = hi THEN lo
    ELSE LET mid == (lo + hi) \div 2
             a == MinIndex(s, v, lo, mid)
             b == MinIndex(s, v, mid + 1, hi)
         IN  IF Abs(s[b] - v) < Abs(s[a] - v) THEN b ELSE a

(***************************************************************************)
(* legal_ntasks                                                            *)
(***************************************************************************)
divisors(max_mpi) ==
    SelectSeq(PyRange(1, max_mpi + 1, 1), LAMBDA i : max_mpi % i = 0)

multiples_exclusive(max_mpi) == PyRange(max_mpi, TOTAL_PES, max_mpi)

multiples(max_mpi) == PyRange(max_mpi, TOTAL_PES + 1, max_mpi)

candidates(max_mpi) ==
    SortedSet(SeqToSet(divisors(max_mpi) \o multiples(max_mpi)),
              PyMax(max_mpi, TOTAL_PES))

legal_ntasks(v, max_mpi) ==
    LET c == candidates(max_mpi)
    IN  c[MinIndex(c, v, 1, Len(c))]

(***************************************************************************)
(* objective(): weights to task counts                                     *)
(***************************************************************************)
CompSet == SeqToSet(COMPONENTS)

RECURSIVE SumOver(_, _)
SumOver(f, S) ==
    IF S = {} THEN 0
    ELSE LET x == CHOOSE y \in S : TRUE IN f[x] + SumOver(f, S \ {x})

\* round(n / d) for n >= 0, d > 0: Python rounds a half to the even neighbour
PyRound(n, d) ==
    LET q == n \div d
        r == n % d
    IN  IF 2 * r < d THEN q
        ELSE IF 2 * r > d THEN q + 1
        ELSE IF q % 2 = 0 THEN q ELSE q + 1

\* int(raw), raw = raw_weights[comp] / weight_sum * TOTAL_PES
IntRaw(weights, comp) ==
    (weights[comp] * TOTAL_PES) \div SumOver(weights, DOMAIN weights)

bounded(weights, comp) ==
    PyMin(PyMax(DictGet(TASK_MIN_LIMITS, comp, 1), IntRaw(weights, comp)),
          DictGet(TASK_MAX_LIMITS, comp, TOTAL_PES))

snapped(b, max_mpi) == PyMax(1, PyRound(b, max_mpi)) * max_mpi

allocate(weights, stubs, max_mpi) ==
    [comp \in CompSet |->
        IF comp \in stubs THEN 1 ELSE snapped(bounded(weights, comp), max_mpi)]

(***************************************************************************)
(* assign_rootpes                                                          *)
(***************************************************************************)
SetMax(S) == CHOOSE x \in S : \A y \in S : y <= x

SetMin(S) == CHOOSE x \in S : \A y \in S : x <= y

\* The task counts max() ranges over at line 51; empty when max() raises
group_counts(tc, stubs, group) ==
    {tc[group[j]] : j \in {k \in DOMAIN group : group[k] \notin stubs}}

group_span_min(counts) == SetMin(counts)

group_span(counts) == SetMax(counts)

ocn_too_big(ocn_ntasks) == ocn_ntasks > TOTAL_PES

over_budget_off_by_one(current_rootpe, max_ntasks) ==
    current_rootpe + max_ntasks >= TOTAL_PES

over_budget(current_rootpe, max_ntasks) ==
    current_rootpe + max_ntasks > TOTAL_PES

\* assigned[comp] = current_rootpe for the members that are placed
place_group(assigned, stubs, group, current_rootpe) ==
    LET placed == {c \in SeqToSet(group) : c \notin stubs /\ c # "OCN"}
    IN  [c \in DOMAIN assigned \cup placed |->
            IF c \in placed THEN current_rootpe ELSE assigned[c]]

RECURSIVE pack_groups(_, _, _, _, _, _)
pack_groups(tc, stubs, groups, i, current_rootpe, assigned) ==
    IF i > Len(groups) THEN [raised |-> NoException, assigned |-> assigned]
    ELSE LET counts == group_counts(tc, stubs, groups[i])
         IN  IF counts = {}
             THEN [raised |-> "ValueError", assigned |-> assigned]
             ELSE IF over_budget(current_rootpe, group_span(counts))
             THEN [raised |-> "TrialPruned", assigned |-> assigned]
             ELSE pack_groups(tc, stubs, groups, i + 1,
                              current_rootpe + group_span(counts),
                              place_group(assigned, stubs, groups[i],
                                          current_rootpe))

\* current_rootpe once OCN has its block (lines 40, 47)
after_ocn_forgotten(ocn_ntasks) == 0

after_ocn(ocn_ntasks) == 0 + ocn_ntasks

assign_rootpes(tc, stubs, groups) ==
    IF ocn_too_big(tc["OCN"])
    THEN [raised |-> "TrialPruned", assigned |-> <<>>]
    ELSE pack_groups(tc, stubs, groups, 1, after_ocn(tc["OCN"]),
                     [c \in {"OCN"} |-> 0])

(***************************************************************************)
(* parse_timing                                                            *)
(*                                                                         *)
(* A line of a timing file is                                              *)
(*   [lead, code, head, text, unit]:                                       *)
(* whether white space leads it, the word before the head ("TOT", "ATM",   *)
(* ... or "" when there is none), the head ("Model Cost:",                 *)
(* "Model Throughput:" or "Run Time:"), the characters after the head's    *)
(* white space, and the word that follows them.                            *)
(***************************************************************************)
Digits == {"0", "1", "2", "3", "4", "5", "6", "7", "8", "9"}

DigitValue ==
    ("0" :> 0) @@ ("1" :> 1) @@ ("2" :> 2) @@ ("3" :> 3) @@ ("4" :> 4) @@
    ("5" :> 5) @@ ("6" :> 6) @@ ("7" :> 7) @@ ("8" :> 8) @@ ("9" :> 9)

UpperCodes == {"TOT", "ATM", "LND", "ICE", "CPL", "ROF", "GLC", "WAV", "OCN"}

\* line.strip(): the leading white space goes
strip(line) == [line EXCEPT !.lead = FALSE]

\* What ([\d\.]+) captures at the start of text: its longest run of digits
\* and dots
RECURSIVE NumPrefix(_)
NumPrefix(text) ==
    IF text = <<>> \/ Head(text) \notin Digits \cup {"."} THEN <<>>
    ELSE <<Head(text)>> \o NumPrefix(Tail(text))

RECURSIVE IntOf(_)
IntOf(chars) ==
    IF chars = <<>> THEN 0
    ELSE IntOf(SubSeq(chars, 1, Len(chars) - 1)) * 10
         + DigitValue[chars[Len(chars)]]

\* float(chars) in tenths, for chars of digits and dots with at most one
\* digit after the dot; None where float() raises ValueError
float(chars) ==
    LET dots == {i \in DOMAIN chars : chars[i] = "."}
    IN  IF Cardinality(dots) > 1 \/ Len(chars) = Cardinality(dots)
        THEN None
        ELSE IF dots = {} THEN Some(IntOf(chars) * 10)
        ELSE LET d == CHOOSE i \in dots : TRUE
                 frac == SubSeq(chars, d + 1, Len(chars))
             IN  Some(IntOf(SubSeq(chars, 1, d - 1)) * 10
                      + (IF frac = <<>> THEN 0 ELSE DigitValue[frac[1]]))

\* overall_cost_re = r"Model Cost:\s+([\d\.]+)"
overall_cost_re(line) ==
    line.head = "Model Cost:" /\ NumPrefix(line.text) # <<>>

\* throughput_re = r"Model Throughput:\s+([\d\.]+)"
throughput_re(line) ==
    line.head = "Model Throughput:" /\ NumPrefix(line.text) # <<>>

\* "([\d\.]+) seconds": the whole text is captured and " seconds" follows
seconds_follow(line) ==
    /\ NumPrefix(line.text) # <<>>
    /\ NumPrefix(line.text) = line.text
    /\ line.unit = "seconds"

\* component_time_re = r"^\s+([A-Z]{3}) Run Time:\s+([\d\.]+) seconds"
component_time_re(line) ==
    /\ line.lead
    /\ line.code \in UpperCodes
    /\ line.head = "Run Time:"
    /\ seconds_follow(line)

\* total_runtime_re = r"TOT Run Time:\s+([\d\.]+) seconds"
total_runtime_re(line) ==
    /\ line.code = "TOT"
    /\ line.head = "Run Time:"
    /\ seconds_follow(line)

EmptyResult ==
    [total_cost |-> None, throughput |-> None, run_time |-> None,
     component_times |-> <<>>]

\* dict[key] = val
DictSet(d, key, val) ==
    [k \in DOMAIN d \cup {key} |-> IF k = key THEN val ELSE d[k]]

\* One turn of the loop over the file's lines (lines 96-105), on
\* [raised, result]
parse_line(acc, raw_line) ==
    LET line == strip(raw_line)
        x == float(NumPrefix(line.text))
        result == acc.result
        ValueError == [raised |-> "ValueError", result |-> result]
        Carry(r) == [raised |-> NoException, result |-> r]
    IN  IF overall_cost_re(line)
        THEN IF x = None THEN ValueError
             ELSE Carry([result EXCEPT !.total_cost = x])
        ELSE IF throughput_re(line)
        THEN IF x = None THEN ValueError
             ELSE Carry([result EXCEPT !.throughput = x])
        ELSE IF component_time_re(line)
        THEN IF x = None THEN ValueError
             ELSE Carry([result EXCEPT !.component_times =
                             DictSet(result.component_times, line.code, x[1])])
        ELSE IF total_runtime_re(line)
        THEN IF x = None THEN ValueError
             ELSE Carry([result EXCEPT !.run_time = x])
        ELSE acc

RECURSIVE parse_lines(_, _)
parse_lines(acc, lines) ==
    IF lines = <<>> \/ acc.raised # NoException THEN acc
    ELSE parse_lines(parse_line(acc, Head(lines)), Tail(lines))

\* line 107
missing_metrics(result) ==
    \/ result.total_cost = None
    \/ result.throughput = None
    \/ result.run_time = None

\* The timing directory is [exists, files]; a file is [prefix, lid, lines]
\* and two ghost fields (by: the trial whose run wrote it, written: the
\* values its writer put in).  sorted() orders the names by lid.
timing_files(dir) == {f \in dir.files : f.prefix = "cesm_timing"}

last_file(dir) ==
    CHOOSE f \in timing_files(dir) : \A g \in timing_files(dir) : g.lid <= f.lid

parse_timing(dir) ==
    IF ~dir.exists
    THEN [raised |-> "FileNotFoundError", result |-> EmptyResult]
    ELSE IF timing_files(dir) = {}
    THEN [raised |-> "RuntimeError", result |-> EmptyResult]
    ELSE LET acc == parse_lines([raised |-> NoException,
                                 result |-> EmptyResult],
                                last_file(dir).lines)
         IN  IF acc.raised # NoException THEN acc
             ELSE IF missing_metrics(acc.result)
             THEN [raised |-> "RuntimeError", result |-> acc.result]
             ELSE acc

(***************************************************************************)
(* Bounds of the model, and the inputs drawn within them                   *)
(***************************************************************************)
MaxValue == 1100        \* legal_ntasks: value is drawn from 1..MaxValue
MaxLane == 16           \* lane widths 1..MaxLane, and LaneSamples
MaxActive == 3          \* at most this many active components beside OCN

LaneSamples == {36, 40, 128, 1000, 1024}

LaneWidths == (1..MaxLane) \cup LaneSamples

\* The active components beside OCN are the first k of COMPONENTS; OCN
\* itself is active or a stub.
StubChoices ==
    {CompSet \ ({COMPONENTS[i] : i \in 1..k} \cup ocn) :
        k \in 1..MaxActive, ocn \in {{}, {"OCN"}}}

components_to_group(stubs) ==
    SelectSeq(COMPONENTS, LAMBDA comp : comp # "OCN" /\ comp \notin stubs)

\* assign_rootpes: the task counts of the active components
TaskChoices == {1, 256, 512, 1024, 2000}

\* Every list of non-empty groups that partitions members (each group in
\* the order of COMPONENTS)
GroupLists(members) ==
    {[i \in 1..n |-> SelectSeq(COMPONENTS,
                               LAMBDA c : c \in members /\ g[c] = i)] :
        <<n, g>> \in {ng \in UNION {{<<m, h>> : h \in [members -> 1..m]} :
                                      m \in 1..Cardinality(members)} :
                         \A i \in 1..ng[1] : \E c \in members : ng[2][c] = i}}

\* parse_timing: the values a report is written from (tenths)
WrittenValues == {10000, 105}

OptionOf(S) == {None} \cup {Some(x) : x \in S}

DictsOver(keys, vals) == UNION {[d -> vals] : d \in SUBSET keys}

ReportComps == {"ATM", "LND"}

WrittenReports ==
    [total_cost : OptionOf(WrittenValues), throughput : OptionOf(WrittenValues),
     run_time : OptionOf(WrittenValues),
     component_times : DictsOver(ReportComps, WrittenValues)]

RECURSIVE IntChars(_)
IntChars(n) ==
    LET d == CHOOSE c \in Digits : DigitValue[c] = n % 10
    IN  IF n < 10 THEN <<d>> ELSE IntChars(n \div 10) \o <<d>>

\* The text of x tenths: "1000.0" for 10000; the garbled style doubles the
\* dot and the digit after it ("1000.0.0")
FormatFloat(x, style) ==
    LET tenth == IntChars(x % 10)
    IN  IntChars(x \div 10) \o <<".">> \o tenth
        \o (IF style = "garbled" THEN <<".">> \o tenth ELSE <<>>)

\* The lines of a report written from w, every line led by white space or
\* none
WriteReport(w, style, lead) ==
    LET Line(code, head, x, unit) ==
            [lead |-> lead, code |-> code, head |-> head,
             text |-> FormatFloat(x, style), unit |-> unit]
        comps == SelectSeq(COMPONENTS,
                           LAMBDA c : c \in DOMAIN w.component_times)
    IN  (IF w.total_cost = None THEN <<>>
         ELSE <<Line("", "Model Cost:", w.total_cost[1],
                     "pe-hrs/simulated_year")>>)
        \o (IF w.throughput = None THEN <<>>
            ELSE <<Line("", "Model Throughput:", w.throughput[1],
                        "simulated_years/day")>>)
        \o (IF w.run_time = None THEN <<>>
            ELSE <<Line("TOT", "Run Time:", w.run_time[1], "seconds")>>)
        \o [i \in 1..Len(comps) |->
               Line(comps[i], "Run Time:", w.component_times[comps[i]],
                    "seconds")]

\* The file a run writes under lid; `by` tells whose run wrote it
TimingFile(lid, w, style, lead, by) ==
    [prefix |-> "cesm_timing", lid |-> lid,
     lines |-> WriteReport(w, style, lead),
     by |-> by, written |-> w, style |-> style]

NoTimingDir == [exists |-> FALSE, files |-> {}]

(***************************************************************************)
(* What the variables hold where they play no part                         *)
(***************************************************************************)
ArgsIdle == num_trials = 0 /\ metric = "cost"

SimulatorIdle == sim_comp_types = <<>> /\ sim_max_mpi = 0

StudyIdle ==
    trials = <<>> /\ reported = None /\ pushed = {} /\ record_pushes = FALSE

SnapIdle == value = 0 /\ legal = 0

ProposalIdle == num_groups = 0 /\ raw_weights = <<>>

TailIdle == config = <<>> /\ sim_outcome = "" /\ results = EmptyResult

(***************************************************************************)
(* SpecSnap: legal_ntasks on its own                                       *)
(***************************************************************************)
InitSnap ==
    /\ pc = "legal_ntasks"
    /\ value \in 1..MaxValue
    /\ max_mpitasks_per_node \in LaneWidths
    /\ legal = 0
    /\ ArgsIdle /\ SimulatorIdle /\ StudyIdle /\ ProposalIdle /\ TailIdle
    /\ timing = NoTimingDir
    /\ stub_comps = {} /\ overlap_groups = <<>> /\ task_counts = <<>>
    /\ rootpes = <<>>

LegalNtasks ==
    /\ pc = "legal_ntasks"
    /\ legal' = legal_ntasks(value, max_mpitasks_per_node)
    /\ pc' = "returned"
    /\ UNCHANGED <<num_trials, metric, sim_comp_types, sim_max_mpi, timing,
                   trials, reported, stub_comps, max_mpitasks_per_node,
                   num_groups, overlap_groups, raw_weights, task_counts,
                   rootpes, config, sim_outcome, results, value, pushed,
                   record_pushes>>

SpecSnap == InitSnap /\ [][LegalNtasks]_vars

(***************************************************************************)
(* SpecPack: assign_rootpes on its own                                     *)
(***************************************************************************)
InitPack ==
    /\ pc = "assign_rootpes"
    /\ stub_comps \in StubChoices
    /\ task_counts \in {tc \in [CompSet -> TaskChoices] :
                           \A c \in stub_comps : tc[c] = 1}
    /\ overlap_groups \in GroupLists(CompSet \ (stub_comps \cup {"OCN"}))
    /\ rootpes = <<>>
    /\ max_mpitasks_per_node = 0
    /\ ArgsIdle /\ SimulatorIdle /\ StudyIdle /\ ProposalIdle /\ TailIdle
    /\ SnapIdle
    /\ timing = NoTimingDir

AssignRootpes ==
    /\ pc = "assign_rootpes"
    /\ LET r == assign_rootpes(task_counts, stub_comps, overlap_groups)
       IN  /\ rootpes' = r.assigned
           /\ pc' = IF r.raised = NoException THEN "returned" ELSE r.raised
    /\ UNCHANGED <<num_trials, metric, sim_comp_types, sim_max_mpi, timing,
                   trials, reported, stub_comps, max_mpitasks_per_node,
                   num_groups, overlap_groups, raw_weights, task_counts,
                   config, sim_outcome, results, value, legal, pushed,
                   record_pushes>>

SpecPack == InitPack /\ [][AssignRootpes]_vars

(***************************************************************************)
(* SpecParse: parse_timing on a directory that holds one report            *)
(***************************************************************************)
InitParse ==
    /\ pc = "parse_timing"
    /\ \E w \in WrittenReports, style \in {"float", "garbled"},
          lead \in BOOLEAN :
          timing = [exists |-> TRUE,
                    files |-> {TimingFile(1, w, style, lead, 0)}]
    /\ results = EmptyResult
    /\ config = <<>> /\ sim_outcome = ""
    /\ ArgsIdle /\ SimulatorIdle /\ StudyIdle /\ ProposalIdle /\ SnapIdle
    /\ stub_comps = {} /\ overlap_groups = <<>> /\ task_counts = <<>>
    /\ rootpes = <<>> /\ max_mpitasks_per_node = 0

ParseTiming ==
    /\ pc = "parse_timing"
    /\ LET r == parse_timing(timing)
       IN  /\ results' = r.result
           /\ pc' = IF r.raised = NoException THEN "returned" ELSE r.raised
    /\ UNCHANGED <<num_trials, metric, sim_comp_types, sim_max_mpi, timing,
                   trials, reported, stub_comps, max_mpitasks_per_node,
                   num_groups, overlap_groups, raw_weights, task_counts,
                   rootpes, config, sim_outcome, value, legal, pushed,
                   record_pushes>>

SpecParse == InitParse /\ [][ParseTiming]_vars

(***************************************************************************)
(* Spec: main() and objective()                                            *)
(***************************************************************************)
MaxTrials == 2          \* args.num_trials is drawn from 1..MaxTrials
MaxDriverActive == 2    \* active components beside OCN in the trial loop

DriverLanes == {128, 40}

\* trial.suggest_float(f"weight_{comp}", 0.01, 1.0), in hundredths
WeightChoices == {1, 50, 100}

\* COMP_<comp>, as the characters of the name
ActiveType ==
    [ATM |-> <<"c", "a", "m">>, LND |-> <<"c", "l", "m">>,
     ICE |-> <<"c", "i", "c", "e">>, CPL |-> <<"c", "p", "l">>,
     ROF |-> <<"m", "o", "s", "a", "r", "t">>, GLC |-> <<"c", "i", "s", "m">>,
     WAV |-> <<"w", "w">>, OCN |-> <<"p", "o", "p">>]

StubType ==
    [ATM |-> <<"s", "a", "t", "m">>, LND |-> <<"s", "l", "n", "d">>,
     ICE |-> <<"s", "i", "c", "e">>, CPL |-> <<"s", "c", "p", "l">>,
     ROF |-> <<"s", "r", "o", "f">>, GLC |-> <<"S", "G", "L", "C">>,
     WAV |-> <<"s", "w", "a", "v">>, OCN |-> <<"s", "o", "c", "n">>]

DriverStubChoices ==
    {CompSet \ ({COMPONENTS[i] : i \in 1..k} \cup ocn) :
        k \in 1..MaxDriverActive, ocn \in {{}, {"OCN"}}}

CompTypeChoices ==
    {[comp \in CompSet |-> IF comp \in stubs THEN StubType[comp]
                           ELSE ActiveType[comp]] : stubs \in DriverStubChoices}

\* The reports a run of the Simulator may write
DriverReports ==
    {[total_cost |-> Some(10000), throughput |-> Some(100),
      run_time |-> Some(5000), component_times |-> [ATM |-> 4000]],
     [total_cost |-> Some(20005), throughput |-> Some(50),
      run_time |-> Some(10000), component_times |-> <<>>],
     [total_cost |-> None, throughput |-> Some(100),
      run_time |-> Some(5000), component_times |-> [ATM |-> 4000]]}

\* str.lower(), on the first character
lower(ch) == IF ch = "S" THEN "s" ELSE ch

\* val.lower().startswith("s")
is_stub(val) == val # <<>> /\ lower(val[1]) = "s"

\* Every order random.shuffle() may leave the list in
shuffles(list) ==
    {[i \in DOMAIN list |-> list[p[i]]] :
        p \in {q \in [DOMAIN list -> DOMAIN list] :
                  \A i, j \in DOMAIN list : q[i] = q[j] => i = j}}

\* overlap_groups[i % num_groups].append(comp), i counted from 0
deal(shuffled, n) ==
    [g \in 1..n |->
        SelectSeq(shuffled,
                  LAMBDA comp :
                      \E i \in DOMAIN shuffled :
                          shuffled[i] = comp /\ (i - 1) % n = g - 1)]

\* lines 185-194
build_config(stubs, tc, roots) ==
    [comp \in CompSet |->
        IF comp \in stubs THEN [ntasks |-> 1, nthrds |-> 1, rootpe |-> 0]
        ELSE [ntasks |-> tc[comp], nthrds |-> 1, rootpe |-> roots[comp]]]

\* How configure_case() may end: the call that raised, or "ok"
SimOutcomes == {"ok", "set_value", "case_setup", "case_build", "submit"}

\* At the end of a trial every file in the directory is an earlier trial's
age(dir) == [dir EXCEPT !.files = {[f EXCEPT !.by = "earlier"] : f \in @}]

\* The lid of a run is its time stamp, later than that of every earlier run
lid_of_run(ts) == Len(ts) + 1

OtherFile ==
    [prefix |-> "cesm.ESMF_Profile", lid |-> 0, lines |-> <<>>,
     by |-> "this", written |-> EmptyResult, style |-> "float"]

\* line 209
score(res, m) == IF m = "throughput" THEN res.throughput ELSE res.total_cost

completed(ts) == {i \in DOMAIN ts : ts[i].state = "COMPLETE"}

better(m, a, b) == IF m = "throughput" THEN a > b ELSE a < b

\* study.best_trial: the first completed trial no other one beats
best_trial(ts, m) ==
    CHOOSE i \in completed(ts) :
        \A j \in completed(ts) :
            /\ ~better(m, ts[j].value[1], ts[i].value[1])
            /\ (ts[j].value = ts[i].value => i <= j)

InitLoop(record) ==
    /\ pc = "optimize"
    /\ num_trials \in 1..MaxTrials
    /\ metric \in {"throughput", "cost"}
    /\ sim_comp_types \in CompTypeChoices
    /\ sim_max_mpi \in DriverLanes
    /\ timing = NoTimingDir
    /\ trials = <<>>
    /\ reported = None
    /\ pushed = {}
    /\ record_pushes = record
    /\ stub_comps = {} /\ overlap_groups = <<>> /\ task_counts = <<>>
    /\ rootpes = <<>> /\ max_mpitasks_per_node = 0
    /\ ProposalIdle /\ TailIdle /\ SnapIdle

Init == InitLoop(FALSE)

ResetLocals ==
    /\ stub_comps' = {} /\ overlap_groups' = <<>> /\ task_counts' = <<>>
    /\ rootpes' = <<>> /\ max_mpitasks_per_node' = 0
    /\ num_groups' = 0 /\ raw_weights' = <<>>
    /\ config' = <<>>

\* study.optimize(): the next trial, or the end of the loop
Optimize ==
    /\ pc = "optimize"
    /\ pc' = IF Len(trials) < num_trials THEN "objective" ELSE "best_trial"
    /\ UNCHANGED <<num_trials, metric, sim_comp_types, sim_max_mpi, timing,
                   trials, reported, stub_comps, max_mpitasks_per_node,
                   num_groups, overlap_groups, raw_weights, task_counts,
                   rootpes, config, sim_outcome, results, value, legal,
                   pushed, record_pushes>>

\* lines 143-146
MetadataRead ==
    /\ pc = "objective"
    /\ stub_comps' = {comp \in CompSet : is_stub(sim_comp_types[comp])}
    /\ max_mpitasks_per_node' = sim_max_mpi
    /\ pc' = "suggest"
    /\ UNCHANGED <<num_trials, metric, sim_comp_types, sim_max_mpi, timing,
                   trials, reported, num_groups, overlap_groups, raw_weights,
                   task_counts, rootpes, config, sim_outcome, results, value,
                   legal, pushed, record_pushes>>

\* lines 143-145 when the case cannot be opened or read: the exception
\* leaves objective(), study.optimize() and main()
MetadataFail ==
    /\ pc = "objective"
    /\ pc' = "aborted"
    /\ UNCHANGED <<num_trials, metric, sim_comp_types, sim_max_mpi, timing,
                   trials, reported, stub_comps, max_mpitasks_per_node,
                   num_groups, overlap_groups, raw_weights, task_counts,
                   rootpes, config, sim_outcome, results, value, legal,
                   pushed, record_pushes>>

\* lines 148-177: the suggestions, the shuffle, and the allocation that
\* follows from them
Propose ==
    /\ pc = "suggest"
    /\ \E n \in 1..Len(components_to_group(stub_comps)),
          shuffled \in shuffles(components_to_group(stub_comps)),
          weights \in [CompSet \ stub_comps -> WeightChoices] :
          /\ num_groups' = n
          /\ overlap_groups' = deal(shuffled, n)
          /\ raw_weights' = weights
          /\ task_counts' = allocate(weights, stub_comps, max_mpitasks_per_node)
    /\ pc' = "assign_rootpes"
    /\ UNCHANGED <<num_trials, metric, sim_comp_types, sim_max_mpi, timing,
                   trials, reported, stub_comps, max_mpitasks_per_node,
                   rootpes, config, sim_outcome, results, value, legal,
                   pushed, record_pushes>>

\* lines 179-182: any exception of assign_rootpes prunes the trial
pack_handler(raised) == IF raised = NoException THEN "configure" ELSE "TrialPruned"

\* The locals of objective() end with it when TrialPruned leaves it
Pack ==
    /\ pc = "assign_rootpes"
    /\ LET r == assign_rootpes(task_counts, stub_comps, overlap_groups)
       IN  /\ pc' = pack_handler(r.raised)
           /\ IF pc' = "TrialPruned" THEN ResetLocals
              ELSE /\ rootpes' = r.assigned
                   /\ UNCHANGED <<stub_comps, max_mpitasks_per_node,
                                  num_groups, overlap_groups, raw_weights,
                                  task_counts, config>>
    /\ UNCHANGED <<num_trials, metric, sim_comp_types, sim_max_mpi, timing,
                   trials, reported, sim_outcome, results, value, legal,
                   pushed, record_pushes>>

\* lines 196-201: any exception of configure_case prunes the trial
configure_handler(outcome) ==
    IF outcome = "ok" THEN "submitted" ELSE "TrialPruned"

\* lines 184-201
Configure ==
    /\ pc = "configure"
    /\ \E outcome \in SimOutcomes :
          /\ sim_outcome' = outcome
          /\ pc' = configure_handler(outcome)
          /\ pushed' =
                IF record_pushes /\ outcome # "set_value"
                THEN pushed \cup
                     {[suggested |-> [num_groups |-> num_groups,
                                      raw_weights |-> raw_weights],
                       layout |-> [config |-> build_config(stub_comps,
                                                           task_counts,
                                                           rootpes),
                                   groups |-> {SeqToSet(overlap_groups[i]) :
                                                 i \in DOMAIN overlap_groups}]]}
                ELSE pushed
          /\ IF pc' = "TrialPruned" THEN ResetLocals
             ELSE /\ config' = build_config(stub_comps, task_counts, rootpes)
                  /\ UNCHANGED <<stub_comps, max_mpitasks_per_node,
                                 num_groups, overlap_groups, raw_weights,
                                 task_counts, rootpes>>
    /\ UNCHANGED <<num_trials, metric, sim_comp_types, sim_max_mpi, timing,
                   trials, reported, results, value, legal, record_pushes>>

\* The submitted run, seen from the timing directory: it leaves nothing,
\* or the directory without a report, or a report under a new name
SimulatorRun ==
    /\ pc = "submitted"
    /\ \/ timing' = timing
       \/ timing' = [exists |-> TRUE, files |-> timing.files \cup {OtherFile}]
       \/ \E w \in DriverReports :
             timing' = [exists |-> TRUE,
                        files |-> timing.files
                                  \cup {TimingFile(lid_of_run(trials), w,
                                                   "float", TRUE, "this")}]
    /\ pc' = "parse_timing"
    /\ ResetLocals
    /\ UNCHANGED <<num_trials, metric, sim_comp_types, sim_max_mpi, trials,
                   reported, sim_outcome, results, value, legal, pushed,
                   record_pushes>>

\* lines 203-207: FileNotFoundError and RuntimeError prune the trial, any
\* other exception leaves objective(), study.optimize() and main()
parse_handler_catches_nothing(raised) ==
    IF raised = NoException THEN "return" ELSE "aborted"

parse_handler(raised) ==
    IF raised = NoException THEN "return"
    ELSE IF raised \in {"FileNotFoundError", "RuntimeError"} THEN "TrialPruned"
    ELSE "aborted"

ParseReport ==
    /\ pc = "parse_timing"
    /\ LET r == parse_timing(timing)
       IN  /\ results' = r.result
           /\ pc' = parse_handler(r.raised)
    /\ UNCHANGED <<num_trials, metric, sim_comp_types, sim_max_mpi, timing,
                   trials, reported, stub_comps, max_mpitasks_per_node,
                   num_groups, overlap_groups, raw_weights, task_counts,
                   rootpes, config, sim_outcome, value, legal, pushed,
                   record_pushes>>

\* line 209, and study.optimize() recording the value
Scored ==
    /\ pc = "return"
    /\ trials' = Append(trials, [state |-> "COMPLETE",
                                 value |-> score(results, metric)])
    /\ timing' = age(timing)
    /\ pc' = "optimize"
    /\ ResetLocals /\ sim_outcome' = "" /\ results' = EmptyResult
    /\ UNCHANGED <<num_trials, metric, sim_comp_types, sim_max_mpi, reported,
                   value, legal, pushed, record_pushes>>

\* study.optimize() on optuna.TrialPruned: the trial is recorded without a
\* value and the loop goes on
Pruned ==
    /\ pc = "TrialPruned"
    /\ trials' = Append(trials, [state |-> "PRUNED", value |-> None])
    /\ timing' = age(timing)
    /\ pc' = "optimize"
    /\ ResetLocals /\ sim_outcome' = "" /\ results' = EmptyResult
    /\ UNCHANGED <<num_trials, metric, sim_comp_types, sim_max_mpi, reported,
                   value, legal, pushed, record_pushes>>

\* lines 219-220: study.best_trial raises ValueError when no trial completed
BestTrial ==
    /\ pc = "best_trial"
    /\ IF completed(trials) = {}
       THEN pc' = "ValueError" /\ reported' = reported
       ELSE /\ pc' = "done"
            /\ reported' =
                  Some([number |-> best_trial(trials, metric) - 1,
                        value |-> trials[best_trial(trials, metric)].value[1]])
    /\ UNCHANGED <<num_trials, metric, sim_comp_types, sim_max_mpi, timing,
                   trials, stub_comps, max_mpitasks_per_node, num_groups,
                   overlap_groups, raw_weights, task_counts, rootpes, config,
                   sim_outcome, results, value, legal, pushed, record_pushes>>

Next ==
    \/ Optimize
    \/ MetadataRead
    \/ MetadataFail
    \/ Propose
    \/ Pack
    \/ Configure
    \/ SimulatorRun
    \/ ParseReport
    \/ Scored
    \/ Pruned
    \/ BestTrial

Spec == Init /\ [][Next]_vars

\* The same loop with the history of pushes kept
InitDet == InitLoop(TRUE)

SpecDet == InitDet /\ [][Next]_vars

(***************************************************************************)
(* The claims                                                              *)
(***************************************************************************)
\* {divisors of w} union {multiples of w up to TOTAL_PES}
LegalSet(w) ==
    {d \in 1..w : w % d = 0} \cup {m \in 1..TOTAL_PES : m % w = 0}

\* x is the element of LegalSet(w) nearest to v, the smaller one on a tie
IsNearestLegal(x, v, w) ==
    /\ x \in LegalSet(w)
    /\ \A c \in LegalSet(w) :
          \/ Abs(x - v) < Abs(c - v)
          \/ Abs(x - v) = Abs(c - v) /\ x <= c

\* [rootpe, rootpe + ntasks) of a and of b intersect
Intersect(root, count, a, b) ==
    /\ root[a] < root[b] + count[b]
    /\ root[b] < root[a] + count[a]

SameGroup(groups, a, b) ==
    \E i \in DOMAIN groups : {a, b} \subseteq SeqToSet(groups[i])

Grouped(groups) == UNION {SeqToSet(groups[i]) : i \in DOMAIN groups}

\* The sum, over the groups, of the largest member task count
RECURSIVE SpanSum(_, _)
SpanSum(groups, tc) ==
    IF groups = <<>> THEN 0
    ELSE SetMax({tc[c] : c \in SeqToSet(Head(groups))})
         + SpanSum(Tail(groups), tc)

Infeasible(groups, tc) ==
    \/ tc["OCN"] > TOTAL_PES
    \/ tc["OCN"] + SpanSum(groups, tc) > TOTAL_PES

\* C1: in every trial, every non-stub component's task count is the
\* element of LegalSet(MAX_MPITASKS_PER_NODE) nearest to its clamped share
\* (the smaller one on a tie), and so lies in 1..TOTAL_PES.
C1_AllocatorSnapsToLegal ==
    pc = "assign_rootpes" =>
        \A comp \in CompSet \ stub_comps :
            /\ IsNearestLegal(task_counts[comp], bounded(raw_weights, comp),
                              max_mpitasks_per_node)
            /\ task_counts[comp] \in 1..TOTAL_PES

\* C2: when assign_rootpes returns, two components of different overlap
\* groups have ranges [rootpe, rootpe + ntasks) that do not intersect.
C2_GroupsDisjoint ==
    pc = "returned" =>
        \A a, b \in Grouped(overlap_groups) :
            ~SameGroup(overlap_groups, a, b)
                => ~Intersect(rootpes, task_counts, a, b)

\* C2's case: two groups were placed and one of them has two members of
\* different task counts.
C2_Witness ==
    /\ pc = "returned"
    /\ Len(overlap_groups) >= 2
    /\ \E a, b \in Grouped(overlap_groups) :
          /\ SameGroup(overlap_groups, a, b)
          /\ task_counts[a] < task_counts[b]

\* C3: assign_rootpes raises TrialPruned exactly when OCN's task count
\* exceeds TOTAL_PES or OCN's task count plus the sum of the groups'
\* largest task counts does; in a layout it returns, every placed
\* component ends within the budget.
C3_PrunedIffOverBudget ==
    pc # "assign_rootpes" =>
        /\ pc \in {"returned", "TrialPruned"}
        /\ pc = "TrialPruned" <=> Infeasible(overlap_groups, task_counts)
        /\ pc = "returned" =>
              \A c \in DOMAIN rootpes :
                  rootpes[c] + task_counts[c] <= TOTAL_PES

\* C3's case: OCN fits and the packing is pruned at a group after the
\* first.
C3_Witness ==
    /\ pc = "TrialPruned"
    /\ task_counts["OCN"] <= TOTAL_PES
    /\ Len(overlap_groups) >= 2
    /\ ~Infeasible(<<overlap_groups[1]>>, task_counts)

\* A layout has been pushed to the Simulator and the run submitted
LayoutPushed == pc = "submitted"

ConfigRoot == [c \in CompSet |-> config[c].rootpe]

ConfigCount == [c \in CompSet |-> config[c].ntasks]

\* C4, as stated: in every layout pushed, OCN has root offset 0 and two
\* components' ranges intersect only if they are in the same overlap
\* group; no other component, active or stub, intersects OCN's range.
C4_Original ==
    LayoutPushed =>
        /\ config["OCN"].rootpe = 0
        /\ \A a, b \in CompSet :
              a # b /\ Intersect(ConfigRoot, ConfigCount, a, b)
                  => SameGroup(overlap_groups, a, b)
        /\ \A c \in CompSet \ {"OCN"} :
              ~Intersect(ConfigRoot, ConfigCount, c, "OCN")

\* C4, amended: in every layout pushed, OCN has root offset 0, two
\* non-stub components' ranges intersect only if they are in the same
\* overlap group (so no non-stub component meets OCN's range), and every
\* stub has one task at root offset 0.
C4_Amended ==
    LayoutPushed =>
        /\ config["OCN"].rootpe = 0
        /\ \A a, b \in CompSet \ stub_comps :
              a # b /\ Intersect(ConfigRoot, ConfigCount, a, b)
                  => SameGroup(overlap_groups, a, b)
        /\ \A c \in stub_comps :
              config[c].ntasks = 1 /\ config[c].rootpe = 0

\* C4's case: a pushed layout in which OCN is active, holds more than one
\* task, and is followed by two groups of components, one after the other.
C4_Witness ==
    /\ LayoutPushed
    /\ "OCN" \notin stub_comps
    /\ Len(overlap_groups) >= 2
    /\ \E a, b \in CompSet \ (stub_comps \cup {"OCN"}) :
          /\ config[a].rootpe = config["OCN"].ntasks /\ config[a].rootpe > 1
          /\ config[b].rootpe = config[a].rootpe + config[a].ntasks

\* The report parse_timing reads lacks one of the three scalars
ReportLacks(dir) ==
    LET w == last_file(dir).written
    IN  w.total_cost = None \/ w.throughput = None \/ w.run_time = None

NoReport(dir) == ~dir.exists \/ timing_files(dir) = {}

PrunedTrial == [state |-> "PRUNED", value |-> None]

\* C5: a trial whose packing is infeasible, whose configure_case fails,
\* that finds no report or a report lacking total_cost, throughput or
\* run_time ends pruned; a pruned trial is recorded without a value and
\* the loop goes on; a value is recorded only by a trial that packed,
\* configured and parsed a complete report.
C5_FailuresPrune ==
    [][/\ pc = "assign_rootpes" /\ Infeasible(overlap_groups, task_counts)
            => pc' = "TrialPruned"
       /\ pc = "configure" /\ sim_outcome' # "ok" => pc' = "TrialPruned"
       /\ pc = "parse_timing" /\ (NoReport(timing) \/ ReportLacks(timing))
            => pc' = "TrialPruned"
       /\ pc = "TrialPruned"
            => pc' = "optimize" /\ trials' = Append(trials, PrunedTrial)
       /\ pc = "optimize" /\ Len(trials) < num_trials => pc' = "objective"
       /\ trials' # trials /\ trials'[Len(trials')].state = "COMPLETE"
            => /\ pc = "return"
               /\ sim_outcome = "ok"
               /\ ~NoReport(timing) /\ ~ReportLacks(timing)
       /\ pc' = "configure" => ~Infeasible(overlap_groups, task_counts)
       /\ pc' = "submitted" => pc = "configure" /\ sim_outcome' = "ok"
       /\ pc' = "parse_timing" => sim_outcome' = "ok"
      ]_vars

\* C5's case: the run was submitted, the report it left lacks a scalar,
\* and the trial stands pruned.
C5_Witness ==
    /\ pc = "TrialPruned"
    /\ sim_outcome = "ok"
    /\ ~NoReport(timing)
    /\ ReportLacks(timing)

\* C6: for value >= 1 and 1 <= w <= TOTAL_PES, legal_ntasks(value, w) is
\* the element of LegalSet(w) nearest to value, the smaller one on a tie;
\* it lies in 1..TOTAL_PES, divides w or is a multiple of it, and a value
\* that is in LegalSet(w) comes back unchanged.
C6_NearestLegal ==
    pc = "returned" =>
        /\ IsNearestLegal(legal, value, max_mpitasks_per_node)
        /\ legal \in 1..TOTAL_PES
        /\ max_mpitasks_per_node % legal = 0
              \/ legal % max_mpitasks_per_node = 0
        /\ value \in LegalSet(max_mpitasks_per_node) => legal = value

\* C6's case: two legal values were equally near and the smaller came back.
C6_Witness ==
    /\ pc = "returned"
    /\ \E c \in LegalSet(max_mpitasks_per_node) :
          c > legal /\ Abs(c - value) = Abs(legal - value)

TheReport == CHOOSE f \in timing.files : TRUE

\* C7: a report written with a Model Cost, a Model Throughput and a TOT
\* Run Time line and per-component Run Time lines parses to the written
\* total_cost, throughput and run_time and to one component_times entry per
\* per-component line, with its written value.
C7_RoundTrip ==
    pc # "parse_timing" /\ TheReport.style = "float"
        /\ TheReport.written.total_cost # None
        /\ TheReport.written.throughput # None
        /\ TheReport.written.run_time # None
        => /\ pc = "returned"
           /\ results = TheReport.written

\* C8: the loop ends after exactly num_trials finished trials, and main()
\* then reports a best value and the trial that earned it.
C8_ReportsBest ==
    pc \in {"best_trial", "done", "ValueError"} =>
        /\ Len(trials) = num_trials
        /\ pc # "best_trial" =>
              /\ pc = "done"
              /\ reported # None
              /\ trials[reported[1].number + 1].state = "COMPLETE"
              /\ trials[reported[1].number + 1].value = Some(reported[1].value)

\* C9: two pushes made from equal suggested values (num_groups and the
\* weights), under the same metadata, carry the same task counts, groups
\* and root offsets.
C9_LayoutIsFunctionOfSuggestions ==
    \A a, b \in pushed : a.suggested = b.suggested => a.layout = b.layout

\* C10: the report a scored trial's value is parsed from was written by
\* that trial's own run.
C10_ScoreFromOwnReport ==
    pc = "return" => last_file(timing).by = "this"

====
